---------------------------- MODULE Spec2Model ----------------------------
(***************************************************************************)
(* A model of ckornie/betfair-tools:                                       *)
(*   - src/download.py : the archive ingestion pipeline (download_check,   *)
(*     download_all, decrypt, network_logs, extract, process, main);       *)
(*   - src/orders.py   : the paged retrieval loop (paged_request, main).   *)
(*                                                                         *)
(* Strings are modelled as sequences of tokens.  A token is either a piece *)
(* of plain text ("a", "d") or one of the substrings the code searches     *)
(* for ("/", ".tar.zst", "housekeeping", "application-network.json").      *)
(* `in`, str.partition and re.match are computed on the token sequences.   *)
(***************************************************************************)
EXTENDS Integers, Sequences, FiniteSets, TLC

VARIABLES
    \* ---- src/download.py : the destination directory
    parts,        \* the files destination/<dir>/<file>.parquet: path -> contents
    archivesDir,  \* names of the files in destination/archives
    tmp,          \* TRUE while the NamedTemporaryFile of download_all exists
    \* ---- src/download.py : one run of main
    pc,           \* position of main / download_all / process / extract
    mode,         \* "remote" | "file"
    pattern,      \* _arguments.pattern
    keep,         \* _arguments.keep
    pending,      \* entries of _bucket.ls not yet taken by download_all
    cur,          \* the listing entry / archive in hand
    buffers,      \* extract's _buffers
    widx,         \* position of extract's loop over _buffers.items()
    result,       \* extract's return value
    crash,        \* what raised to the top level ("" when nothing did)
    \* ---- src/download.py : history of the runs
    budget,       \* listing entries and files the runs to come may still take
    downloads,    \* number of _file.download calls made in the current run
    doneNow,      \* <<archive, mode, pattern>> of the archives for which extract
                  \* returned True in the current run
    doneBefore,   \* the same, of the earlier runs
    skipLog,      \* the reason download_check logged for its last rejection
    lastWrite,    \* key, path and outcome of extract's last step over _buffers
    \* ---- src/orders.py : paged_request
    fpc,          \* position of paged_request
    now,          \* datetime.datetime.now(), in hours
    days0,        \* --days
    days, to_, from_, ongoing, record, errors,   \* the locals of paged_request
    page,         \* the response paged_request yielded
    \* ---- src/orders.py : history of the calls
    windows,      \* <<from, to>> of every window a request was issued for
    calls,        \* calls made in the current window
    pages,        \* pages the upstream has returned so far
    raised,       \* calls of the current window in which method(...) raised
    offsets,      \* from_record values sent in the current window
    output,       \* the pages main appended to the archive file
    allRaised,    \* the calls made so far while method(...) has raised in every
                  \* one of them; -1 once a call has returned
    \* ---- src/download.py : one call of decrypt
    dpc,          \* position of the call: "off" | "call" | "returned" | "raised"
    data,         \* the bytes of the input stream
    password,     \* the password
    origin,       \* how the input was made: [kind, plain]
    derror,       \* the exception decrypt raised ("" when none)
    dfile,        \* destination/archives/<name>: [exists, bytes]
    \* ---- src/download.py : two runs in extract on the same archive
    rarch,        \* the archive both runs were given
    rparts,       \* the destination they share: path -> contents
    rowner,       \* path -> the run whose write_parquet made the file there
    rpc,          \* run -> "check" | "write" | "done"
    ridx,         \* run -> position of its loop over _buffers.items()
    rres,         \* run -> what extract returned ("" while it runs)
    rwrote        \* <<run, path>> of the write_parquet calls that returned

pvars == <<parts, archivesDir, tmp, pc, mode, pattern, keep, pending, cur,
           buffers, widx, result, crash, budget, downloads, doneNow, doneBefore,
           skipLog, lastWrite>>
fvars == <<fpc, now, days0, days, to_, from_, ongoing, record, errors, page,
           windows, calls, pages, raised, offsets, output, allRaised>>
dvars == <<dpc, data, password, origin, derror, dfile>>
rvars == <<rarch, rparts, rowner, rpc, ridx, rres, rwrote>>
vars == <<pvars, fvars, dvars, rvars>>

----------------------------------------------------------------------------
(* Bounds of the model *)

MaxEntries == 2   \* listing entries and direct files taken over all runs
MaxDays == 1      \* largest --days
MaxPages == 2     \* pages the upstream returns to one call of paged_request
MaxLines == 2     \* lines of the log member handed to extract directly
MaxMembers == 2   \* members of the container handed to extract directly
MaxOffset == 4    \* largest record offset followed when the calls are not counted
MaxPlain == 33    \* bytes of the plaintexts handed to decrypt directly

----------------------------------------------------------------------------
(* Strings as token sequences *)

\* `t in s`
Contains(s, t) == \E i \in 1..Len(s) : s[i] = t

\* index of the first occurrence of t in s, 0 when there is none
IndexOf(s, t) ==
    IF Contains(s, t)
    THEN CHOOSE i \in 1..Len(s) : s[i] = t /\ \A j \in 1..(i-1) : s[j] # t
    ELSE 0

\* s.partition(t) : <<before, separator, after>>
Partition(s, t) ==
    LET i == IndexOf(s, t)
    IN  IF i = 0 THEN <<s, <<>>, <<>>>>
        ELSE <<SubSeq(s, 1, i-1), <<t>>, SubSeq(s, i+1, Len(s))>>

IsPrefix(p, s) == Len(p) <= Len(s) /\ SubSeq(s, 1, Len(p)) = p


----------------------------------------------------------------------------
(* src/download.py : decrypt.  Bytes are the integers 0..255.  The key      *)
(* derivation and the block cipher of the cryptography package are modelled *)
(* by what decrypt relies on: Derive is a function of password and salt,    *)
(* and BlockDecrypt is, for each key, a bijection on blocks.                *)

ByteRange == 256
MagicSize == 8      \* data.read(8)
SaltSize == 8       \* _salt = data.read(8)
KeySize == 32       \* key_size
IvSize == 16        \* iv_size
BlockSize == 16     \* the block of algorithms.AES
Iterations == 10000 \* iterations=10_000

\* b'Salted__'
Magic == <<83, 97, 108, 116, 101, 100, 95, 95>>

\* stream.read(n) on a stream holding s, and what the stream holds afterwards
Read(s, n) == SubSeq(s, 1, IF Len(s) < n THEN Len(s) ELSE n)
Rest(s, n) == SubSeq(s, n + 1, Len(s))

\* a comparison of the first byte only
HasMagicFirstByte(head) == head # <<>> /\ head[1] = Magic[1]

\* data.read(8) == b'Salted__'
HasMagic(head) == head = Magic

RECURSIVE SumSeq(_)
SumSeq(s) == IF s = <<>> THEN 0 ELSE Head(s) + SumSeq(Tail(s))

\* a ^ b on bytes
RECURSIVE Xor(_, _)
Xor(a, b) ==
    IF a = 0 THEN b
    ELSE IF b = 0 THEN a
    ELSE (((a % 2) + (b % 2)) % 2) + 2 * Xor(a \div 2, b \div 2)

XorBlock(x, y) == [i \in 1..Len(x) |-> Xor(x[i], y[i])]

\* PBKDF2HMAC(SHA256, length, salt, iterations).derive(password)
Derive(pw, salt, length) ==
    [i \in 1..length |->
        (3 * SumSeq(pw) + 5 * SumSeq(salt) + 7 * i + Iterations) % ByteRange]

\* the block cipher under key, in the decrypting direction
BlockDecrypt(key, y) ==
    [j \in 1..BlockSize |->
        (y[BlockSize + 1 - j] + ByteRange - key[BlockSize + 1 - j]) % ByteRange]

\* modes.CBC(_iv): _decryptor.update(_ciphertext), block by block; prev is
\* the preceding ciphertext block, the initial vector for the first
RECURSIVE CbcDecrypt(_, _, _)
CbcDecrypt(key, prev, ct) ==
    IF Len(ct) < BlockSize THEN <<>>
    ELSE LET c == SubSeq(ct, 1, BlockSize)
         IN  XorBlock(BlockDecrypt(key, c), prev)
               \o CbcDecrypt(key, c, Rest(ct, BlockSize))

\* a strip that drops one byte whatever the pad length says
StripOneByte(pt) == SubSeq(pt, 1, Len(pt) - 1)

\* _padding = _plaintext[-1]; _plaintext = _plaintext[:-_padding]
StripPadding(pt) ==
    LET pad == pt[Len(pt)]
    IN  IF pad = 0 \/ pad >= Len(pt) THEN <<>>
        ELSE SubSeq(pt, 1, Len(pt) - pad)

\* decrypt up to the open of the output file: the exception it raises ("" when
\* none) and the plaintext it goes on to write
\*   "magic" - ValueError of the magic check
\*   "block" - ValueError of finalize(): the ciphertext is not whole blocks
\*   "index" - IndexError of _plaintext[-1] on an empty plaintext
decrypt(bytes, pw) ==
    IF ~HasMagic(Read(bytes, MagicSize))
    THEN [error |-> "magic", plain |-> <<>>]
    ELSE LET salt == Read(Rest(bytes, MagicSize), SaltSize)
             ct == Rest(bytes, MagicSize + SaltSize)
             kiv == Derive(pw, salt, KeySize + IvSize)
             key == SubSeq(kiv, 1, KeySize)
             iv == SubSeq(kiv, KeySize + 1, KeySize + IvSize)
         IN  IF Len(ct) % BlockSize # 0 THEN [error |-> "block", plain |-> <<>>]
             ELSE IF ct = <<>> THEN [error |-> "index", plain |-> <<>>]
             ELSE [error |-> "", plain |-> StripPadding(CbcDecrypt(key, iv, ct))]

\* destination/archives/<name>
NoDecrypted == [exists |-> FALSE, bytes |-> <<>>]
Decrypted(bytes) == [exists |-> TRUE, bytes |-> bytes]

\* values of data.read(8) that are not the magic marker
BadHeads == { SubSeq(Magic, 1, MagicSize - 1), [Magic EXCEPT ![MagicSize] = 45] }

\* no call of decrypt on its own
DIdle ==
    /\ dpc = "off" /\ data = <<>> /\ password = <<>>
    /\ origin = [kind |-> "none", plain |-> <<>>]
    /\ derror = "" /\ dfile = NoDecrypted

\* decrypt(name, data, password, destination): the whole call
DecryptCall ==
    /\ dpc = "call"
    /\ UNCHANGED <<pvars, fvars, rvars>>
    /\ LET r == decrypt(data, password)
       IN  IF r.error # ""
           THEN dpc' = "raised" /\ derror' = r.error /\ dfile' = dfile
           ELSE dpc' = "returned" /\ derror' = "" /\ dfile' = Decrypted(r.plain)
    /\ UNCHANGED <<data, password, origin>>

----------------------------------------------------------------------------
(* src/download.py : data *)

\* the substrings extract searches a line for, in the order of its if/elif chain
Markers == <<"listMarketCatalogue", "marketDefinition", "placeOrders",
             "cancelOrders", "ocm">>
MarkerSet == {Markers[i] : i \in 1..Len(Markers)}

\* a dictionary that holds the updates first
KeysUpdatesFirst == <<"updates", "catalogues", "definitions", "posts", "cancels">>

\* the keys of extract's _buffers, in insertion order
Keys == <<"catalogues", "definitions", "posts", "cancels", "updates">>
KeySet == {Keys[i] : i \in 1..Len(Keys)}

\* a line of the log member: the markers it contains, and whether it is valid JSON
Line(has, valid) == [has |-> has, valid |-> valid]

\* a member of the container (tarfile.TarInfo)
Member(isfile, size, name) == [isfile |-> isfile, size |-> size, name |-> name]
LogMember(top) == Member(TRUE, 1, <<top, "/", "application-network.json">>)
DirMember(top) == Member(FALSE, 0, <<top>>)

\* an archive of the bucket: its listing name and what its bytes turn out to be:
\* head   - what data.read(8) returns
\* opens  - tarfile.open accepts the decrypted bytes
\* members, log - the container's members and the lines of its log member
Archive(name, head, opens, members, log) ==
    [name |-> name, head |-> head, opens |-> opens, members |-> members, log |-> log]

NameA == <<"d", "/", "a", ".tar.zst">>
NameB == <<"d", "/", "b", ".tar.zst">>
NameH == <<"d", "/", "housekeeping", ".tar.zst">>

LCat == Line({"listMarketCatalogue"}, TRUE)
LOcm == Line({"ocm"}, TRUE)
LPostCancel == Line({"placeOrders", "cancelOrders"}, TRUE)
LNone == Line({}, TRUE)
LBadDef == Line({"marketDefinition"}, FALSE)

\* the archives the runs of the model meet
Archives ==
    { Archive(NameA, h, FALSE, <<>>, <<>>) : h \in BadHeads }          \* wrong magic
    \cup
    { Archive(NameA, Magic, FALSE, <<>>, <<>>),                        \* not a container
      Archive(NameA, Magic, TRUE, <<DirMember("a")>>, <<>>),            \* no log member
      Archive(NameA, Magic, TRUE, <<LogMember("a"), LogMember("a")>>, <<>>),
      Archive(NameH, Magic, TRUE, <<LogMember("housekeeping")>>, <<LCat>>) }
    \cup { Archive(NameA, Magic, TRUE, <<DirMember("a"), LogMember("a")>>, log) :
             log \in { <<LNone>>, <<LOcm>>, <<LCat, LPostCancel>>, <<LCat, LBadDef>> } }
    \cup { Archive(NameB, Magic, TRUE, <<LogMember("a")>>, <<LCat, LOcm>>),
           Archive(NameB, Magic, TRUE, <<LogMember("b")>>, <<LOcm>>) }

\* re.match(pattern, name): the default pattern ".*.zst" and patterns "<literal>.*"
Pattern(kind, lit) == [kind |-> kind, lit |-> lit]
PatDefault == Pattern("default", <<>>)
Patterns == {PatDefault, Pattern("prefix", <<"d", "/", "a">>)}

\* the destination directory: destination/<dir>/<file>.parquet
Data(kind, rows) == [kind |-> kind, rows |-> rows]
NoFile == Data("none", <<>>)
OldFile == Data("old", <<>>)          \* a file written before the first run
PartialFile == Data("partial", <<>>)  \* what a failed write_parquet may leave
Dirs == KeySet \cup {"other"}
Files == {<<"a">>, <<"b">>, <<"housekeeping">>}
Paths == Dirs \X Files
EmptyDestination == [p \in {} |-> NoFile]
\* the directory with data at path / what the directory holds at path
WithFile(fs, path, contents) ==
    [q \in DOMAIN fs \cup {path} |-> IF q = path THEN contents ELSE fs[q]]
FileAt(fs, path) == IF path \in DOMAIN fs THEN fs[path] ELSE NoFile
\* the states of the destination a first run may find
Destinations ==
    { EmptyDestination,
      WithFile(EmptyDestination, <<"updates", <<"a">>>>, OldFile),
      WithFile(EmptyDestination, <<"other", <<"b">>>>, OldFile) }

NoArchive == Archive(<<>>, <<>>, FALSE, <<>>, <<>>)
EmptyBuffers == [k \in KeySet |-> <<>>]

----------------------------------------------------------------------------
(* src/download.py : pure functions *)

\* re.match anchors at the start of the name.  ".*.zst" needs "zst" preceded by
\* at least one character, which the token ".tar.zst" always is.
Matches(pat, name) ==
    IF pat.kind = "default" THEN Contains(name, ".tar.zst")
    ELSE IsPrefix(pat.lit, name)

\* _, _, _file = download.partition("/"); _stem, _, _ = _file.partition(".tar.zst")
Stem(download) == Partition(Partition(download, "/")[3], ".tar.zst")[1]

\* a lookup with glob in place of rglob: it sees the destination's own entries
\* only, and every partition lies one level down
GlobFinds(fs, adir, stem) == FALSE

\* directory.rglob(f"{_stem}.parquet") finds a file: a partition in any
\* sub-directory, or a file of destination/archives of that very name
RglobFinds(fs, adir, stem) ==
    \/ \E p \in DOMAIN fs : p[2] = stem
    \/ \E n \in adir : n = stem \o <<".parquet">>

\* a pre-filter that lets the pattern decide about housekeeping archives
SkipReasonNoExclusion(fs, adir, download, pat) ==
    IF ~Matches(pat, download) THEN "pattern"
    ELSE IF RglobFinds(fs, adir, Stem(download)) THEN "exists"
    ELSE "none"

\* a pre-filter that does not look at the destination
SkipReasonNoLookup(fs, adir, download, pat) ==
    IF Contains(download, "housekeeping") THEN "housekeeping"
    ELSE IF ~Matches(pat, download) THEN "pattern"
    ELSE "none"

\* the three rejections of download_check, by the message each logs
SkipReason(fs, adir, download, pat) ==
    IF Contains(download, "housekeeping") THEN "housekeeping"
    ELSE IF ~Matches(pat, download) THEN "pattern"
    ELSE IF RglobFinds(fs, adir, Stem(download)) THEN "exists"
    ELSE "none"

download_check(fs, adir, download, pat) == SkipReason(fs, adir, download, pat) = "none"

\* the name download_all yields: (_, _, _name) = _file.file_name.partition("/")
YieldedName(download) == Partition(download, "/")[3]

\* a filter that takes empty files too
QualifiesEmpty(m) == m.isfile /\ Contains(m.name, "application-network.json")

Qualifies(m) == m.isfile /\ m.size > 0 /\ Contains(m.name, "application-network.json")

network_logs(members) == SelectSeq(members, Qualifies)

\* _filename, _, _ = _log.name.partition("/")
TopName(m) == Partition(m.name, "/")[1]

\* a chain that tests cancelOrders before placeOrders
ClassifySwapped(line) ==
    IF "listMarketCatalogue" \in line.has THEN "catalogues"
    ELSE IF "marketDefinition" \in line.has THEN "definitions"
    ELSE IF "cancelOrders" \in line.has THEN "cancels"
    ELSE IF "placeOrders" \in line.has THEN "posts"
    ELSE IF "ocm" \in line.has THEN "updates"
    ELSE "none"

\* the if/elif chain of extract: the key of the buffer the line is written to
Classify(line) ==
    IF "listMarketCatalogue" \in line.has THEN "catalogues"
    ELSE IF "marketDefinition" \in line.has THEN "definitions"
    ELSE IF "placeOrders" \in line.has THEN "posts"
    ELSE IF "cancelOrders" \in line.has THEN "cancels"
    ELSE IF "ocm" \in line.has THEN "updates"
    ELSE "none"

\* the loop over the lines of the log member
RECURSIVE ClassifyLines(_, _)
ClassifyLines(lines, bufs) ==
    IF lines = <<>> THEN bufs
    ELSE LET k == Classify(Head(lines))
         IN  ClassifyLines(Tail(lines),
                 IF k = "none" THEN bufs
                 ELSE [bufs EXCEPT ![k] = Append(@, Head(lines))])

\* polars.read_ndjson accepts the buffer
Decodes(buf) == \A i \in 1..Len(buf) : buf[i].valid


----------------------------------------------------------------------------
(* src/download.py : the runs of main.  destination/archives is taken to     *)
(* exist (decrypt opens a file in it and nothing in the code creates it).   *)

NoWrite == [key |-> "", path |-> <<"", <<>>>>, outcome |-> ""]

PInit ==
    /\ parts \in Destinations
    /\ archivesDir = {}
    /\ tmp = FALSE
    /\ pc = "idle"
    /\ mode = "remote"
    /\ pattern = PatDefault
    /\ keep = FALSE
    /\ pending = 0
    /\ cur = NoArchive
    /\ buffers = EmptyBuffers
    /\ widx = 1
    /\ result = FALSE
    /\ crash = ""
    /\ budget = MaxEntries
    /\ downloads = 0
    /\ doneNow = {}
    /\ doneBefore = {}
    /\ skipLog = ""
    /\ lastWrite = NoWrite

\* the process exits: nothing of the run is left but the destination directory
EndRun ==
    /\ pc' = "idle"
    /\ mode' = "remote"
    /\ pattern' = PatDefault
    /\ keep' = FALSE
    /\ pending' = 0
    /\ cur' = NoArchive
    /\ buffers' = EmptyBuffers
    /\ widx' = 1
    /\ result' = FALSE
    /\ crash' = ""
    /\ downloads' = 0
    /\ doneBefore' = doneBefore \cup doneNow
    /\ doneNow' = {}
    /\ skipLog' = ""
    /\ lastWrite' = NoWrite

\* an exception leaves process / download_all / main: `what` reaches __main__
Raise(what) ==
    /\ pc' = "crashed"
    /\ crash' = what

\* main, remote listing: backblaze(...) then the first next() of download_all
StartRemote(pat, k, n, auth) ==
    /\ pc = "idle"
    /\ UNCHANGED <<fvars, dvars, rvars>>
    /\ n <= budget
    /\ budget' = budget - n
    /\ mode' = "remote"
    /\ pattern' = pat
    /\ keep' = k
    /\ pending' = n
    /\ IF auth THEN pc' = "list" /\ crash' = crash ELSE Raise("auth")
    /\ UNCHANGED <<parts, archivesDir, tmp, cur, buffers, widx, result,
                   downloads, doneNow, doneBefore, skipLog, lastWrite>>

\* main, --file: process(_file.name, _archive, ...) on a local copy of archive a
StartFile(a, k) ==
    /\ pc = "idle"
    /\ UNCHANGED <<fvars, dvars, rvars>>
    /\ budget > 0
    /\ budget' = budget - 1
    /\ mode' = "file"
    /\ keep' = k
    /\ cur' = a
    /\ pc' = "process"
    /\ UNCHANGED <<parts, archivesDir, tmp, pattern, pending, buffers, widx,
                   result, crash, downloads, doneNow, doneBefore, skipLog, lastWrite>>

\* download_all: _bucket.ls yields its next entry
ListNext(a) ==
    /\ pc = "list"
    /\ UNCHANGED <<fvars, dvars, rvars>>
    /\ pending > 0
    /\ pending' = pending - 1
    /\ cur' = a
    /\ pc' = "check"
    /\ skipLog' = ""
    /\ UNCHANGED <<parts, archivesDir, tmp, mode, pattern, keep, buffers, widx,
                   result, crash, budget, downloads, doneNow, doneBefore, lastWrite>>

\* download_all: _bucket.ls is exhausted, main returns
ListEnd ==
    /\ pc = "list"
    /\ UNCHANGED <<fvars, dvars, rvars>>
    /\ pending = 0
    /\ EndRun
    /\ UNCHANGED <<parts, archivesDir, tmp, budget>>

\* download_all: download_check rejects the entry
Skip ==
    /\ pc = "check"
    /\ UNCHANGED <<fvars, dvars, rvars>>
    /\ ~download_check(parts, archivesDir, cur.name, pattern)
    /\ skipLog' = SkipReason(parts, archivesDir, cur.name, pattern)
    /\ pc' = "list"
    /\ cur' = NoArchive
    /\ UNCHANGED <<parts, archivesDir, tmp, mode, pattern, keep, pending, buffers,
                   widx, result, crash, budget, downloads, doneNow, doneBefore,
                   lastWrite>>

\* download_all: download_check accepts the entry; _file.download and the save
\* to a NamedTemporaryFile (net: the download succeeds), then the yield
Download(net) ==
    /\ pc = "check"
    /\ UNCHANGED <<fvars, dvars, rvars>>
    /\ download_check(parts, archivesDir, cur.name, pattern)
    /\ downloads' = downloads + 1
    /\ IF net THEN tmp' = TRUE /\ pc' = "process" /\ crash' = crash
       ELSE tmp' = tmp /\ Raise("download")
    /\ UNCHANGED <<parts, archivesDir, mode, pattern, keep, pending, cur, buffers,
                   widx, result, budget, doneNow, doneBefore, skipLog, lastWrite>>

\* the name process is called with: _name of download_all, _file.name of --file
ProcessName(a) == YieldedName(a.name)

\* process: decrypt(name, archive, password, destination)
Decrypt ==
    /\ pc = "process"
    /\ UNCHANGED <<fvars, dvars, rvars>>
    /\ IF ~HasMagic(cur.head)
       THEN Raise("magic") /\ archivesDir' = archivesDir
       ELSE /\ archivesDir' = archivesDir \cup {ProcessName(cur)}
            /\ pc' = "decrypted"
            /\ crash' = crash
    /\ UNCHANGED <<parts, tmp, mode, pattern, keep, pending, cur, buffers, widx,
                   result, budget, downloads, doneNow, doneBefore, skipLog, lastWrite>>

\* process: tarfile.open(fileobj=_zstd, mode='r:zst')
OpenTar ==
    /\ pc = "decrypted"
    /\ UNCHANGED <<fvars, dvars, rvars>>
    /\ IF ~cur.opens THEN Raise("container")
       ELSE pc' = "opened" /\ crash' = crash
    /\ UNCHANGED <<parts, archivesDir, tmp, mode, pattern, keep, pending, cur,
                   buffers, widx, result, budget, downloads, doneNow, doneBefore, skipLog,
                   lastWrite>>

\* extract, up to the loop over _buffers: the structure check and the classifier
ExtractClassify ==
    /\ pc = "opened"
    /\ UNCHANGED <<fvars, dvars, rvars>>
    /\ IF Len(network_logs(cur.members)) # 1
       THEN /\ result' = FALSE
            /\ pc' = "extracted"
            /\ UNCHANGED <<buffers, widx>>
       ELSE /\ buffers' = ClassifyLines(cur.log, EmptyBuffers)
            /\ widx' = 1
            /\ pc' = "writing"
            /\ result' = result
    /\ lastWrite' = NoWrite
    /\ UNCHANGED <<parts, archivesDir, tmp, mode, pattern, keep, pending, cur,
                   crash, budget, downloads, doneNow, doneBefore, skipLog>>

\* _path = destination / _key / f"{_filename}.parquet"
\* a path that puts every partition into destination/archives
PartitionPathArchives(key, a) == <<"archives", TopName(network_logs(a.members)[1])>>

PartitionPath(key, a) == <<key, TopName(network_logs(a.members)[1])>>

\* a sink that never finds a destination taken
PathExistsNever(fs, path) == FALSE

\* a sink that only finds the files it did not write itself
PathExistsForeign(fs, path) == FileAt(fs, path) = OldFile

\* _path.exists()
PathExists(fs, path) == path \in DOMAIN fs

\* a sink that takes the empty buffers too
HasDataAlways(buf) == TRUE

\* _value.tell() > 0
HasData(buf) == buf # <<>>

\* what read_ndjson(...).write_parquet(_path) leaves at _path
Written(buf) == Data("written", buf)

\* a write that creates the file only when nothing is there
WriteParquetExclusive(fs, path, contents) ==
    IF path \in DOMAIN fs THEN fs ELSE WithFile(fs, path, contents)

\* write_parquet(_path): the file at _path is made, in place of any that is there
WriteParquet(fs, path, contents) == WithFile(fs, path, contents)

\* extract: one step of the loop over _buffers.items().  io is what the file
\* system does to write_parquet: "ok", "fail" (nothing written) or "partial"
WriteCategory(io) ==
    /\ pc = "writing"
    /\ UNCHANGED <<fvars, dvars, rvars>>
    /\ widx <= Len(Keys)
    /\ LET key == Keys[widx]
           path == PartitionPath(key, cur)
           Return(res, how) ==
               /\ result' = res
               /\ pc' = "extracted"
               /\ widx' = widx
               /\ lastWrite' = [key |-> key, path |-> path, outcome |-> how]
           Continue(how) ==
               /\ result' = result
               /\ pc' = pc
               /\ widx' = widx + 1
               /\ lastWrite' = [key |-> key, path |-> path, outcome |-> how]
       IN  IF ~HasData(buffers[key])
           THEN io = "ok" /\ parts' = parts /\ Continue("nodata")
           ELSE IF PathExists(parts, path)
           THEN io = "ok" /\ parts' = parts /\ Return(FALSE, "conflict")
           ELSE IF ~Decodes(buffers[key])
           THEN io = "ok" /\ parts' = parts /\ Return(FALSE, "undecodable")
           ELSE IF io = "ok"
           THEN parts' = WriteParquet(parts, path, Written(buffers[key]))
                /\ Continue("written")
           ELSE IF io = "partial"
           THEN parts' = WithFile(parts, path, PartialFile)
                /\ Return(FALSE, "failed")
           ELSE parts' = parts /\ Return(FALSE, "failed")
    /\ UNCHANGED <<archivesDir, tmp, mode, pattern, keep, pending, cur, buffers,
                   crash, budget, downloads, doneNow, doneBefore, skipLog>>

\* extract: the loop over _buffers is over, return True
ExtractReturn ==
    /\ pc = "writing"
    /\ UNCHANGED <<fvars, dvars, rvars>>
    /\ widx > Len(Keys)
    /\ result' = TRUE
    /\ pc' = "extracted"
    /\ doneNow' = doneNow \cup {<<cur, mode, pattern>>}
    /\ UNCHANGED <<parts, archivesDir, tmp, mode, pattern, keep, pending, cur,
                   buffers, widx, crash, budget, downloads, doneBefore, skipLog, lastWrite>>

\* a test that forgets the keep flag
DeletesWhateverKeep(extracted, k) == extracted

\* a test that forgets what extract returned
DeletesWhateverResult(extracted, k) == ~k

\* if extract(name, _tar, destination) and not keep
Deletes(extracted, k) == extracted /\ ~k

\* process after extract: delete or keep the decrypted file; then back in main:
\* the next next() of download_all closes the temporary file, --file returns
Cleanup ==
    /\ pc = "extracted"
    /\ UNCHANGED <<fvars, dvars, rvars>>
    /\ archivesDir' = IF Deletes(result, keep) THEN archivesDir \ {ProcessName(cur)}
                      ELSE archivesDir
    /\ IF mode = "remote"
       THEN /\ tmp' = FALSE
            /\ pc' = "list"
            /\ cur' = NoArchive
            /\ UNCHANGED <<mode, pattern, keep, pending, buffers, widx, result,
                           crash, downloads, doneNow, doneBefore, skipLog, lastWrite>>
       ELSE tmp' = tmp /\ EndRun
    /\ UNCHANGED <<parts, budget>>

\* __main__: the except clause logs the exception and the process exits; the
\* temporary file goes with the abandoned generator
TopLevel ==
    /\ pc = "crashed"
    /\ UNCHANGED <<fvars, dvars, rvars>>
    /\ tmp' = FALSE
    /\ EndRun
    /\ UNCHANGED <<parts, archivesDir, budget>>

PNext ==
    \/ \E pat \in Patterns, k \in BOOLEAN, n \in 0..MaxEntries, auth \in BOOLEAN :
           StartRemote(pat, k, n, auth)
    \/ \E a \in Archives, k \in BOOLEAN : StartFile(a, k)
    \/ \E a \in Archives : ListNext(a)
    \/ ListEnd
    \/ Skip
    \/ \E net \in BOOLEAN : Download(net)
    \/ Decrypt
    \/ OpenTar
    \/ ExtractClassify
    \/ \E io \in {"ok", "fail", "partial"} : WriteCategory(io)
    \/ ExtractReturn
    \/ Cleanup
    \/ TopLevel

----------------------------------------------------------------------------
(* src/download.py : two runs that have each decrypted and opened the same  *)
(* archive and are in extract's loop over _buffers.items() at the same      *)
(* time.  Nothing in the code locks the destination: the steps of the two   *)
(* loops interleave freely.                                                 *)

Runs == {1, 2}
NoRun == 0
RaceArchives ==
    { Archive(NameA, Magic, TRUE, <<LogMember("a")>>, log) :
        log \in { <<LOcm>>, <<LCat, LPostCancel>>, <<LCat, LBadDef>> } }
RaceBuffers == ClassifyLines(rarch.log, EmptyBuffers)

\* no second run
RIdle ==
    /\ rarch = NoArchive /\ rparts = EmptyDestination /\ rowner = EmptyDestination
    /\ rpc = [r \in Runs |-> "done"] /\ ridx = [r \in Runs |-> 1]
    /\ rres = [r \in Runs |-> ""] /\ rwrote = {}

\* both runs enter the loop
RInit ==
    /\ rarch \in RaceArchives
    /\ rparts \in Destinations
    /\ rowner = [q \in DOMAIN rparts |-> NoRun]
    /\ rpc = [r \in Runs |-> "check"] /\ ridx = [r \in Runs |-> 1]
    /\ rres = [r \in Runs |-> ""] /\ rwrote = {}

\* run r: if _value.tell() > 0; _path = ...; if _path.exists(): return False;
\* _path.parent.mkdir(...)
RaceCheck(r) ==
    /\ rpc[r] = "check"
    /\ ridx[r] <= Len(Keys)
    /\ UNCHANGED <<pvars, fvars, dvars>>
    /\ LET key == Keys[ridx[r]]
           path == PartitionPath(key, rarch)
       IN  IF ~HasData(RaceBuffers[key])
           THEN ridx' = [ridx EXCEPT ![r] = @ + 1] /\ UNCHANGED <<rpc, rres>>
           ELSE IF PathExists(rparts, path)
           THEN /\ rres' = [rres EXCEPT ![r] = "False"]
                /\ rpc' = [rpc EXCEPT ![r] = "done"]
                /\ ridx' = ridx
           ELSE rpc' = [rpc EXCEPT ![r] = "write"] /\ UNCHANGED <<ridx, rres>>
    /\ UNCHANGED <<rarch, rparts, rowner, rwrote>>

\* run r: the try block, polars.read_ndjson(...).write_parquet(_path)
RaceWrite(r, ok) ==
    /\ rpc[r] = "write"
    /\ UNCHANGED <<pvars, fvars, dvars>>
    /\ LET key == Keys[ridx[r]]
           path == PartitionPath(key, rarch)
       IN  IF Decodes(RaceBuffers[key]) /\ ok
           THEN /\ rparts' = WriteParquet(rparts, path, Written(RaceBuffers[key]))
                /\ rowner' = WriteParquet(rowner, path, r)
                /\ rwrote' = rwrote \cup {<<r, path>>}
                /\ ridx' = [ridx EXCEPT ![r] = @ + 1]
                /\ rpc' = [rpc EXCEPT ![r] = "check"]
                /\ rres' = rres
           ELSE /\ rres' = [rres EXCEPT ![r] = "False"]
                /\ rpc' = [rpc EXCEPT ![r] = "done"]
                /\ UNCHANGED <<rparts, rowner, rwrote, ridx>>
    /\ rarch' = rarch

\* run r: the loop is over, return True
RaceReturn(r) ==
    /\ rpc[r] = "check"
    /\ ridx[r] > Len(Keys)
    /\ UNCHANGED <<pvars, fvars, dvars>>
    /\ rres' = [rres EXCEPT ![r] = "True"]
    /\ rpc' = [rpc EXCEPT ![r] = "done"]
    /\ UNCHANGED <<rarch, rparts, rowner, ridx, rwrote>>

RNext ==
    \/ \E r \in Runs : RaceCheck(r)
    \/ \E r \in Runs, ok \in BOOLEAN : RaceWrite(r, ok)
    \/ \E r \in Runs : RaceReturn(r)

----------------------------------------------------------------------------
(* src/orders.py : paged_request.  Time is counted in hours. *)

HoursPerDay == 24
LagDays == 2        \* datetime.timedelta(days=2)
WindowHours == 24   \* datetime.timedelta(hours=24)
MaxErrors == 5      \* while _ongoing and _errors < 5

\* the values of now() and the page sizes the model draws from
Nows == {61, 96}
PageSizes == {0, 2}

NoPage == [to |-> 0, offset |-> 0, n |-> 0, more |-> FALSE]

\* datetime.datetime.combine(t.date(), datetime.time.min)
Midnight(t) == t - (t % HoursPerDay)

\* a window that starts a day before the midnight after _to
WindowFromCalendar(t) == Midnight(t + HoursPerDay - 1) - HoursPerDay - 1

\* _from = _to - datetime.timedelta(hours=24)
WindowFrom(t) == t - WindowHours

\* a loop that allows a retry after the fifth error
PagingContinuesOneMore(o, e) == o /\ e <= MaxErrors

\* a loop that gives up one call earlier
PagingContinuesOneLess(o, e) == o /\ e < MaxErrors - 1

\* a loop that tests the error count alone
PagingContinuesAnyFlag(o, e) == e < MaxErrors

\* while _ongoing and _errors < 5
PagingContinues(o, e) == o /\ e < MaxErrors

\* an offset that is the size of the last page
NextRecordLastPage(rec, n) == n

\* _record = _record + len(response.orders)
NextRecord(rec, n) == rec + n

\* an error counter that lives across the windows
ErrorsCarriedOver(previous) == previous

\* _errors: int = 0 at the head of the window, whatever the window before left
ErrorsAtWindowStart(previous) == 0

\* paged_request has not been called
FIdle ==
    /\ fpc = "off"
    /\ now = 0 /\ days0 = 0 /\ days = 0 /\ to_ = 0 /\ from_ = 0
    /\ ongoing = FALSE /\ record = 0 /\ errors = 0 /\ page = NoPage
    /\ windows = <<>> /\ calls = 0 /\ pages = 0 /\ raised = 0 /\ offsets = {}
    /\ output = <<>> /\ allRaised = 0

\* main calls paged_request(arguments.days, method); the archive file may hold
\* the pages of an earlier run
FInit ==
    /\ fpc = "start"
    /\ now \in Nows
    /\ days0 \in (-1)..MaxDays
    /\ days = days0
    /\ to_ = 0 /\ from_ = 0
    /\ ongoing = FALSE /\ record = 0 /\ errors = 0 /\ page = NoPage
    /\ windows = <<>> /\ calls = 0 /\ pages = 0 /\ raised = 0 /\ offsets = {}
    /\ output \in {<<>>, <<NoPage>>}
    /\ allRaised = 0

\* _yesterday = now - 2 days; _to = midnight of _yesterday
Begin ==
    /\ fpc = "start"
    /\ UNCHANGED <<pvars, dvars, rvars>>
    /\ to_' = Midnight(now - LagDays * HoursPerDay)
    /\ fpc' = "window"
    /\ UNCHANGED <<now, days0, days, from_, ongoing, record, errors, page,
                   windows, calls, pages, raised, offsets, output, allRaised>>

\* while days >= 0: the head of the loop body
WindowStart ==
    /\ fpc = "window"
    /\ UNCHANGED <<pvars, dvars, rvars>>
    /\ IF days >= 0
       THEN /\ ongoing' = TRUE
            /\ record' = 0
            /\ errors' = ErrorsAtWindowStart(errors)
            /\ from_' = WindowFrom(to_)
            /\ calls' = 0 /\ raised' = 0 /\ offsets' = {}
            /\ fpc' = "paging"
       ELSE /\ fpc' = "done"
            /\ UNCHANGED <<ongoing, record, errors, from_, calls, raised, offsets>>
    /\ UNCHANGED <<now, days0, days, to_, page, windows, pages, output, allRaised>>

\* the request as the upstream sees it
LogCall ==
    /\ calls' = calls + 1
    /\ offsets' = offsets \cup {record}
    /\ windows' = IF windows # <<>> /\ windows[Len(windows)] = <<from_, to_>>
                  THEN windows
                  ELSE Append(windows, <<from_, to_>>)

\* method(...) raises
CallRaises ==
    /\ fpc = "paging"
    /\ UNCHANGED <<pvars, dvars, rvars>>
    /\ PagingContinues(ongoing, errors)
    /\ LogCall
    /\ raised' = raised + 1
    /\ errors' = errors + 1
    /\ allRaised' = IF allRaised = -1 THEN -1 ELSE allRaised + 1
    /\ UNCHANGED <<fpc, now, days0, days, to_, from_, ongoing, record, page,
                   pages, output>>

\* method(...) returns a response whose more_available reads as `more` and
\* whose orders cannot be measured: len(response.orders) raises
CallReturnsBroken(more) ==
    /\ fpc = "paging"
    /\ UNCHANGED <<pvars, dvars, rvars>>
    /\ PagingContinues(ongoing, errors)
    /\ LogCall
    /\ ongoing' = more
    /\ errors' = errors + 1
    /\ allRaised' = -1
    /\ UNCHANGED <<fpc, now, days0, days, to_, from_, record, page, pages,
                   raised, output>>

\* method(...) returns a page of n orders, which is yielded
CallReturns(more, n) ==
    /\ fpc = "paging"
    /\ UNCHANGED <<pvars, dvars, rvars>>
    /\ PagingContinues(ongoing, errors)
    /\ pages < MaxPages
    /\ LogCall
    /\ pages' = pages + 1
    /\ ongoing' = more
    /\ record' = NextRecord(record, n)
    /\ errors' = 0
    /\ allRaised' = -1
    /\ page' = [to |-> to_, offset |-> record, n |-> n, more |-> more]
    /\ fpc' = "yielded"
    /\ UNCHANGED <<now, days0, days, to_, from_, raised, output>>

\* a dump that writes from the start of the file
DumpFromStart(file, payload) == <<payload>>

\* open(arguments.archive, "a+t") and json.dump(response._data, file): the
\* payload goes after whatever the file holds
Dump(file, payload) == Append(file, payload)

\* main: json.dump(response._data, file), then the next next()
Resume ==
    /\ fpc = "yielded"
    /\ UNCHANGED <<pvars, dvars, rvars>>
    /\ output' = Dump(output, page)
    /\ page' = NoPage
    /\ fpc' = "paging"
    /\ UNCHANGED <<now, days0, days, to_, from_, ongoing, record, errors,
                   windows, calls, pages, raised, offsets, allRaised>>

\* the inner loop is left: _to = _from; days = days - 1
WindowEnd ==
    /\ fpc = "paging"
    /\ UNCHANGED <<pvars, dvars, rvars>>
    /\ ~PagingContinues(ongoing, errors)
    /\ to_' = from_
    /\ days' = days - 1
    /\ fpc' = "window"
    /\ UNCHANGED <<now, days0, from_, ongoing, record, errors, page, windows,
                   calls, pages, raised, offsets, output, allRaised>>

\* The same steps of the inner loop with the history of the calls left out
\* (calls, pages, raised, offsets, windows, allRaised, and the archive file):
\* the upstream may answer without end here, which the counted steps cannot
\* follow.  Only the offset is kept in range.

\* method(...) raises
QuietRaises ==
    /\ fpc = "paging"
    /\ UNCHANGED <<pvars, dvars, rvars>>
    /\ PagingContinues(ongoing, errors)
    /\ errors' = errors + 1
    /\ UNCHANGED <<fpc, now, days0, days, to_, from_, ongoing, record, page,
                   windows, calls, pages, raised, offsets, output, allRaised>>

\* method(...) returns a response whose orders cannot be measured
QuietReturnsBroken(more) ==
    /\ fpc = "paging"
    /\ UNCHANGED <<pvars, dvars, rvars>>
    /\ PagingContinues(ongoing, errors)
    /\ ongoing' = more
    /\ errors' = errors + 1
    /\ UNCHANGED <<fpc, now, days0, days, to_, from_, record, page,
                   windows, calls, pages, raised, offsets, output, allRaised>>

\* method(...) returns a page of n orders, which is yielded
QuietReturns(more, n) ==
    /\ fpc = "paging"
    /\ UNCHANGED <<pvars, dvars, rvars>>
    /\ PagingContinues(ongoing, errors)
    /\ NextRecord(record, n) <= MaxOffset
    /\ ongoing' = more
    /\ record' = NextRecord(record, n)
    /\ errors' = 0
    /\ page' = [to |-> to_, offset |-> record, n |-> n, more |-> more]
    /\ fpc' = "yielded"
    /\ UNCHANGED <<now, days0, days, to_, from_,
                   windows, calls, pages, raised, offsets, output, allRaised>>

\* main takes the page and calls next()
QuietResume ==
    /\ fpc = "yielded"
    /\ UNCHANGED <<pvars, dvars, rvars>>
    /\ page' = NoPage
    /\ fpc' = "paging"
    /\ UNCHANGED <<now, days0, days, to_, from_, ongoing, record, errors,
                   windows, calls, pages, raised, offsets, output, allRaised>>

FNextLive ==
    \/ Begin
    \/ WindowStart
    \/ QuietRaises
    \/ \E more \in BOOLEAN : QuietReturnsBroken(more)
    \/ \E more \in BOOLEAN, n \in PageSizes : QuietReturns(more, n)
    \/ QuietResume
    \/ WindowEnd

FNext ==
    \/ Begin
    \/ WindowStart
    \/ CallRaises
    \/ \E more \in BOOLEAN : CallReturnsBroken(more)
    \/ \E more \in BOOLEAN, n \in PageSizes : CallReturns(more, n)
    \/ Resume
    \/ WindowEnd

----------------------------------------------------------------------------
(* Specifications *)

\* no run of src/download.py
PIdle ==
    /\ parts = EmptyDestination /\ archivesDir = {} /\ tmp = FALSE
    /\ pc = "off" /\ mode = "remote" /\ pattern = PatDefault /\ keep = FALSE
    /\ pending = 0 /\ cur = NoArchive /\ buffers = EmptyBuffers /\ widx = 1
    /\ result = FALSE /\ crash = "" /\ budget = 0 /\ downloads = 0
    /\ doneNow = {} /\ doneBefore = {} /\ skipLog = "" /\ lastWrite = NoWrite

\* the runs of src/download.py
Init == PInit /\ FIdle /\ DIdle /\ RIdle
Next == PNext
Spec == Init /\ [][Next]_vars

\* one call of paged_request of src/orders.py
InitFetch == PIdle /\ FInit /\ DIdle /\ RIdle
NextFetch == FNext
SpecFetch == InitFetch /\ [][NextFetch]_vars


\* one direct call of extract (as process makes it) on any small container
MemberNames == { <<"a", "/", "application-network.json">>,
                 <<"b", "/", "application-network.json">>,
                 <<"a", "/", "other.log">> }
MemberUniverse ==
    { Member(f, sz, nm) : f \in BOOLEAN, sz \in {0, 1}, nm \in MemberNames }
LineUniverse ==
    { Line(h, TRUE) : h \in { x \in SUBSET MarkerSet :
                                 Cardinality(x) <= 2 \/ x = MarkerSet } }
    \cup { Line({m}, FALSE) : m \in {"marketDefinition", "ocm"} }
SeqsUpTo(S, n) == UNION { [1..k -> S] : k \in 0..n }
Containers ==
    { Archive(NameA, Magic, TRUE, ms, <<LNone>>) :
        ms \in SeqsUpTo(MemberUniverse, MaxMembers) }
    \cup { Archive(NameA, Magic, TRUE, <<LogMember("a")>>, log) :
             log \in SeqsUpTo(LineUniverse, MaxLines) }

InitExtract ==
    /\ FIdle
    /\ DIdle
    /\ RIdle
    /\ parts \in Destinations
    /\ archivesDir = {YieldedName(NameA)}
    /\ mode = "remote"
    /\ tmp = TRUE
    /\ pc = "opened"
    /\ pattern = PatDefault
    /\ keep = FALSE
    /\ pending = 0
    /\ cur \in Containers
    /\ buffers = EmptyBuffers
    /\ widx = 1
    /\ result = FALSE
    /\ crash = ""
    /\ budget = 0
    /\ downloads = 1
    /\ doneNow = {}
    /\ doneBefore = {}
    /\ skipLog = ""
    /\ lastWrite = NoWrite
NextExtract ==
    \/ ExtractClassify
    \/ \E io \in {"ok", "fail", "partial"} : WriteCategory(io)
    \/ ExtractReturn
    \/ Cleanup
SpecExtract == InitExtract /\ [][NextExtract]_vars


\* one direct call of decrypt on inputs made by the scheme decrypt undoes
\* (the encrypting direction of the same cipher, chaining and padding), and
\* on inputs that are not
BlockEncrypt(key, x) ==
    [i \in 1..BlockSize |-> (x[BlockSize + 1 - i] + key[i]) % ByteRange]
RECURSIVE CbcEncrypt(_, _, _)
CbcEncrypt(key, prev, pt) ==
    IF Len(pt) < BlockSize THEN <<>>
    ELSE LET c == BlockEncrypt(key, XorBlock(SubSeq(pt, 1, BlockSize), prev))
         IN  c \o CbcEncrypt(key, c, Rest(pt, BlockSize))
Pad(pt) ==
    LET n == BlockSize - (Len(pt) % BlockSize)
    IN  pt \o [i \in 1..n |-> n]
ReferenceEncrypt(pt, pw, salt) ==
    LET kiv == Derive(pw, salt, KeySize + IvSize)
    IN  CbcEncrypt(SubSeq(kiv, 1, KeySize),
                   SubSeq(kiv, KeySize + 1, KeySize + IvSize), Pad(pt))
Salted(salt, ct) == Magic \o salt \o ct

PlainBytes == {0, 1, 16, 200}
Plaintexts ==
    { [i \in 1..n |-> c] : n \in 0..MaxPlain, c \in PlainBytes }
    \cup { [i \in 1..n |-> (37 * i) % ByteRange] : n \in 0..MaxPlain }
Passwords == { <<112>>, <<112, 119>> }
Salts == { [i \in 1..SaltSize |-> 0], [i \in 1..SaltSize |-> (31 * i) % ByteRange] }
Salt0 == [i \in 1..SaltSize |-> 0]
Body0 == Salt0 \o ReferenceEncrypt(<<7>>, <<112>>, Salt0)
ZeroBlock == [i \in 1..BlockSize |-> 0]
RawInputs ==
    { SubSeq(Magic, 1, n) : n \in 0..MagicSize }
    \cup { [Magic EXCEPT ![i] = 45] \o Body0 : i \in 1..MagicSize }
    \cup { Body0, Magic \o Salt0, Magic \o Salt0 \o <<1, 2, 3>>,
           Magic \o Salt0 \o SubSeq(Body0, SaltSize + 1, Len(Body0)) \o <<9>> }
    \cup { Salted(Salt0, CbcEncrypt(SubSeq(Derive(pw, Salt0, KeySize + IvSize), 1, KeySize),
                     SubSeq(Derive(pw, Salt0, KeySize + IvSize), KeySize + 1, KeySize + IvSize),
                     ZeroBlock)) : pw \in Passwords }

\* whole-block byte sequences ending in each kind of last byte, enciphered as
\* they are: what decrypt's cipher step gives back is the sequence itself
PadBytes == {0, 1, 5, 15, 16, 17, 31, 32, 33, 200, 255}
WholeBlocks ==
    { [i \in 1..n |-> IF i = n THEN p ELSE (11 * i) % ByteRange] :
          n \in {BlockSize, 2 * BlockSize}, p \in PadBytes }
BlocksEncrypt(pt, pw, salt) ==
    LET kiv == Derive(pw, salt, KeySize + IvSize)
    IN  CbcEncrypt(SubSeq(kiv, 1, KeySize),
                   SubSeq(kiv, KeySize + 1, KeySize + IvSize), pt)

DInit ==
    /\ dpc = "call"
    /\ password \in Passwords
    /\ \/ \E pt \in Plaintexts, salt \in Salts :
            /\ origin = [kind |-> "reference", plain |-> pt]
            /\ data = Salted(salt, ReferenceEncrypt(pt, password, salt))
       \/ \E pt \in WholeBlocks, salt \in Salts :
            /\ origin = [kind |-> "unpadded", plain |-> pt]
            /\ data = Salted(salt, BlocksEncrypt(pt, password, salt))
       \/ /\ origin = [kind |-> "raw", plain |-> <<>>]
          /\ data \in RawInputs
    /\ derror = ""
    /\ dfile \in {NoDecrypted, Decrypted(<<1, 2>>)}

\* one call of paged_request against an upstream that may answer without end.
\* The loop never waits: whenever a step is possible, one is taken.
InitFetchLive == PIdle /\ FInit /\ DIdle /\ RIdle
NextFetchLive == FNextLive
SpecFetchLive == InitFetchLive /\ [][NextFetchLive]_vars /\ WF_vars(NextFetchLive)

\* two concurrent runs of extract on one archive
InitRace == PIdle /\ FIdle /\ DIdle /\ RInit
NextRace == RNext
SpecRace == InitRace /\ [][NextRace]_vars

InitDecrypt == PIdle /\ FIdle /\ DInit /\ RIdle
NextDecrypt == DecryptCall
SpecDecrypt == InitDecrypt /\ [][NextDecrypt]_vars

----------------------------------------------------------------------------
(* Claims about src/download.py *)

\* the step of extract's loop over _buffers that is about to run, if any
AtSink == pc = "writing" /\ widx <= Len(Keys)
SinkKey == Keys[widx]
SinkPath == PartitionPath(SinkKey, cur)

\* C1: when <destination>/<category>/<name>.parquet exists, the write step of
\* extract reports the conflict (extract returns False), writes nothing and
\* leaves the file as it was; when it does not exist and the write succeeds,
\* the file holds the records of that call.  So of two calls with the same
\* (category, name) the first creates the file and the second reports the
\* conflict while the file holds the first call's records.
C1_WriteConflict ==
    [][ /\ (AtSink /\ buffers[SinkKey] # <<>> /\ FileAt(parts, SinkPath) # NoFile)
           => /\ parts' = parts
              /\ pc' = "extracted"
              /\ result' = FALSE
              /\ lastWrite'.outcome = "conflict"
        /\ (AtSink /\ lastWrite'.outcome = "written")
           => /\ FileAt(parts, SinkPath) = NoFile
              /\ FileAt(parts', SinkPath) = Data("written", buffers[SinkKey])
              /\ \A q \in Paths \ {SinkPath} : FileAt(parts', q) = FileAt(parts, q)
      ]_vars

\* C1 witness: a second call found the file a first call wrote
C1_Witness ==
    /\ lastWrite.outcome = "conflict"
    /\ FileAt(parts, lastWrite.path).kind = "written"
    /\ pc = "extracted"
    /\ result = FALSE

\* C2: once a partition file exists, no later step of any run changes its
\* contents or removes it.
C2_WriteOnce ==
    [][ \A p \in Paths : FileAt(parts, p) # NoFile
                            => FileAt(parts', p) = FileAt(parts, p) ]_vars

\* C2 witness: a later run has written a partition next to one an earlier
\* run wrote
C2_Witness ==
    /\ doneBefore # {}
    /\ lastWrite.outcome = "written"
    /\ \E p \in Paths : p # lastWrite.path /\ FileAt(parts, p).kind = "written"


\* C3: an archive for which extract returned True in an earlier run is
\* rejected by download_check in every later run with the same destination
\* and pattern, whatever the archive holds.
C3_Resumable ==
    (pc = "check" /\ <<cur, "remote", pattern>> \in doneBefore)
        => ~download_check(parts, archivesDir, cur.name, pattern)

\* C4: in a remote-listing run no failure inside process (wrong magic marker,
\* container that cannot be opened) reaches the top level and keeps the
\* entries still listed from being processed.
C4_BatchContinues ==
    ~(pc = "crashed" /\ mode = "remote" /\ crash \in {"magic", "container"}
        /\ pending > 0)


\* the members of the container in hand that are regular files, are not empty
\* and carry the log marker in their name
QualifyingCount ==
    Cardinality({ i \in 1..Len(cur.members) :
                    /\ cur.members[i].isfile
                    /\ cur.members[i].size > 0
                    /\ \E j \in 1..Len(cur.members[i].name) :
                           cur.members[i].name[j] = "application-network.json" })

\* C5: with 0 or at least 2 qualifying members extract returns False and
\* writes no partition; with exactly 1 it goes on to classify that member's
\* lines; after the failure the run goes on to the next listing entry.
C5_StructureCheck ==
    [][ /\ (pc = "opened" /\ QualifyingCount # 1)
           => /\ pc' = "extracted"
              /\ result' = FALSE
              /\ parts' = parts
        /\ (pc = "opened" /\ QualifyingCount = 1)
           => /\ pc' = "writing"
              /\ widx' = 1
              /\ \A k \in KeySet : Len(buffers'[k]) <= Len(cur.log)
        /\ (pc = "extracted" /\ lastWrite = NoWrite /\ mode = "remote")
           => /\ pc' = "list"
              /\ pending' = pending
              /\ parts' = parts
      ]_vars

\* C5 witness: extract has refused a container with two log members
C5_Witness ==
    /\ pc = "extracted"
    /\ result = FALSE
    /\ lastWrite = NoWrite
    /\ QualifyingCount = 2
    /\ parts \in Destinations

\* the key of the first marker, in the order of Markers, that the line holds
FirstMarkerKey(line) ==
    IF line.has = {} THEN "none"
    ELSE Keys[CHOOSE i \in 1..Len(Markers) :
                 /\ Markers[i] \in line.has
                 /\ \A j \in 1..(i-1) : Markers[j] \notin line.has]

\* the lines of the log whose first marker is that of key k, in their order
RECURSIVE LinesOf(_, _)
LinesOf(log, k) ==
    IF log = <<>> THEN <<>>
    ELSE (IF FirstMarkerKey(Head(log)) = k THEN <<Head(log)>> ELSE <<>>)
         \o LinesOf(Tail(log), k)

\* C6: every line is appended to the buffer of the first marker it holds, in
\* the order catalogue, definition, posting, cancel, update, and to no other
\* buffer; a line with no marker is appended to none.
C6_Classifier ==
    pc = "writing" =>
        /\ \A k \in KeySet : buffers[k] = LinesOf(cur.log, k)
        /\ Len(buffers["catalogues"]) + Len(buffers["definitions"])
             + Len(buffers["posts"]) + Len(buffers["cancels"])
             + Len(buffers["updates"])
           = Cardinality({ i \in 1..Len(cur.log) : cur.log[i].has # {} })

\* C6 witness: a line with the posting and the cancel marker went to posts
\* only, and a line with no marker went nowhere
C6_Witness ==
    /\ pc = "writing"
    /\ cur.log = <<Line({"placeOrders", "cancelOrders"}, TRUE), Line({}, TRUE)>>
    /\ Len(buffers["posts"]) = 1
    /\ buffers["cancels"] = <<>>

\* C7: download_check rejects every name that holds 'housekeeping' and every
\* name the pattern does not match, whatever the destination holds: the entry
\* is dropped and the listing goes on.
C7_SelectionFilter ==
    [][ (pc = "check" /\ (Contains(cur.name, "housekeeping")
                            \/ ~Matches(pattern, cur.name)))
          => /\ pc' = "list"
             /\ skipLog' \in {"housekeeping", "pattern"}
             /\ pending' = pending
      ]_vars

\* C7 witness: a housekeeping archive the pattern matches was rejected
C7_Witness ==
    /\ pc = "list"
    /\ skipLog = "housekeeping"
    /\ pattern = PatDefault
    /\ Matches(pattern, NameH)

\* C8: an archive whose stem has a <stem>.parquet anywhere under the
\* destination is rejected, and no rejected archive is downloaded: no download
\* call is made and no temporary file exists for it.
C8_PreFilter ==
    [][ /\ (/\ pc = "check"
            /\ \E p \in Paths : FileAt(parts, p) # NoFile /\ p[2] = Stem(cur.name))
           => pc' = "list"
        /\ (pc = "check" /\ pc' = "list")
           => /\ downloads' = downloads
              /\ tmp = FALSE
              /\ tmp' = FALSE
              /\ archivesDir' = archivesDir
      ]_vars

\* C8 witness: an archive the filter would select was rejected because its
\* partition exists, before any download of the run
C8_Witness ==
    /\ pc = "list"
    /\ skipLog = "exists"
    /\ downloads = 0
    /\ tmp = FALSE


----------------------------------------------------------------------------
(* Claims about src/orders.py *)

\* C9: for days = D >= 0 requests are issued for exactly D+1 distinct windows;
\* each spans 24 hours; the newest ends at midnight of the day two days before
\* now; each older window ends where the next newer one starts; the windows
\* are visited from newest to oldest; whatever the upstream does.
C9_WindowTiling ==
    /\ \A i \in 1..Len(windows) :
         /\ windows[i][2] - windows[i][1] = 24
         /\ i = 1 => /\ windows[i][2] % 24 = 0
                     /\ windows[i][2] <= now - 48
                     /\ now - 48 < windows[i][2] + 24
         /\ i > 1 => /\ windows[i][2] = windows[i-1][1]
                     /\ windows[i][2] < windows[i-1][2]
    /\ days0 >= 0 => Len(windows) <= days0 + 1
    /\ (fpc = "done" /\ days0 >= 0) => Len(windows) = days0 + 1
    /\ (fpc \in {"paging", "yielded"} /\ days0 >= 0)
         => /\ days0 - days + 1 \in {Len(windows), Len(windows) + 1}
            /\ calls > 0 => windows[Len(windows)] = <<from_, to_>>

\* C9 witness: days = 1 is over, after a window that was abandoned and a window
\* that returned a page
C9_Witness ==
    /\ fpc = "done"
    /\ days0 = 1
    /\ Len(windows) = 2
    /\ pages = 1
    /\ calls = MaxErrors

\* C10: when the upstream fails every call of a window, exactly 5 calls are
\* made in it, all with the same record offset, and the window is abandoned;
\* the consecutive-error counter is always between 0 and 5 and no call is made
\* while it is 5.
C10_RetryBound ==
    /\ [](/\ errors \in 0..5
          /\ (fpc = "window" /\ calls > 0 /\ raised = calls)
                => (calls = 5 /\ offsets = {0})
          /\ (fpc = "paging" /\ raised = calls /\ calls < 5)
                => (ongoing /\ errors = calls /\ offsets \subseteq {0}))
    /\ [][ calls' = calls + 1 => (errors < 5 /\ fpc = "paging") ]_vars

\* C10 witness: a window was left after five calls that all raised
C10_Witness ==
    /\ fpc = "window"
    /\ calls = 5
    /\ raised = 5
    /\ errors = 5
    /\ offsets = {0}

----------------------------------------------------------------------------
(* Claims about decrypt and process *)

\* C11: whenever the first 8 bytes of the input are not b'Salted__' (an input
\* of fewer than 8 bytes included) decrypt raises the format error: no file
\* is created under destination/archives, and no partition is written for
\* the archive, neither by that step nor afterwards in the run.
C11_FormatCheck ==
    [][ /\ (pc = "process" /\ Read(cur.head, 8) # <<83, 97, 108, 116, 101, 100, 95, 95>>)
           => /\ pc' = "crashed"
              /\ crash' = "magic"
              /\ archivesDir' = archivesDir
              /\ parts' = parts
        /\ (pc = "crashed" /\ crash = "magic")
           => /\ archivesDir' = archivesDir
              /\ parts' = parts
      ]_vars

\* C11 witness: an input shorter than 8 bytes was refused, and nothing of it
\* is in destination/archives
C11_Witness ==
    /\ pc = "crashed"
    /\ crash = "magic"
    /\ Len(cur.head) < 8
    /\ ProcessName(cur) \notin archivesDir

\* C12: decrypt applied to 'Salted__' + salt + the reference encryption of P
\* under password W and that salt returns, and the file it wrote holds
\* exactly P: for the empty P and for P of a whole number of blocks too.
C12_RoundTrip ==
    (dpc # "call" /\ origin.kind = "reference")
        => /\ dpc = "returned"
           /\ derror = ""
           /\ dfile = [exists |-> TRUE, bytes |-> origin.plain]

\* C12 witness: a plaintext of exactly two blocks, ending in a byte that
\* reads as a pad length, came back whole
C12_Witness ==
    /\ dpc = "returned"
    /\ origin.kind = "reference"
    /\ Len(origin.plain) = 2 * BlockSize
    /\ origin.plain[Len(origin.plain)] = 1
    /\ dfile.bytes = origin.plain

\* the sequence without its last p bytes, p its last byte: nothing is left when
\* p is at least the length, everything when p is 0
LastBytesDropped(pt) ==
    LET p == pt[Len(pt)]
    IN  IF p >= Len(pt) THEN <<>> ELSE SubSeq(pt, 1, Len(pt) - p)

\* C21: whatever byte sequence the cipher step gives back, decrypt returns and
\* the file it wrote holds that sequence without its last p bytes, p being the
\* value of its last byte: for p = 0 the whole sequence, for p at least the
\* length nothing; no value of the dropped bytes makes the call fail.
C21_PaddingRemoval ==
    (dpc # "call" /\ origin.kind = "unpadded")
        => /\ dpc = "returned"
           /\ derror = ""
           /\ dfile = [exists |-> TRUE, bytes |-> LastBytesDropped(origin.plain)]

\* the payloads the run has put into the file so far, and what was there before
Dumped == IF fpc = "yielded" THEN pages - 1 ELSE pages
Prior == SubSeq(output, 1, Len(output) - Dumped)
DumpedAt(i) == output[Len(Prior) + i]

\* C22: what the file held before the run stays as its prefix; every step
\* leaves the file's content in place; the page of a successful call is put at
\* the end when main gets it, exactly once, and a call that fails puts nothing;
\* the dumped pages lie in the order received: a later window (earlier in
\* time) after a newer one, and within a window by offset, never decreasing.
C22_AppendOnly ==
    /\ [](Len(output) >= Dumped /\ Prior \in {<<>>, <<NoPage>>})
    /\ [][SubSeq(output', 1, Len(output)) = output]_vars
    /\ [][fpc = "yielded" => output' = Append(output, page)]_vars
    /\ [][fpc # "yielded" => output' = output]_vars
    /\ [][(calls' = calls + 1 /\ fpc' # "yielded")
             => (pages' = pages /\ output' = output /\ page' = NoPage)]_vars
    /\ [](\A i, j \in 1..Dumped :
            i < j => \/ DumpedAt(i).to > DumpedAt(j).to
                     \/ /\ DumpedAt(i).to = DumpedAt(j).to
                        /\ DumpedAt(i).offset <= DumpedAt(j).offset)

\* C22 witness: a file that held a payload before the run holds it still, then
\* two pages of one window in offset order, with a failed call in between
C22_Witness ==
    /\ fpc = "done"
    /\ Len(output) = 3 /\ output[1] = NoPage
    /\ output[2].to = output[3].to
    /\ output[2].offset < output[3].offset
    /\ raised > 0

\* C23: nothing stands between a run's existence check and its write: once a
\* run has passed the check for a path, its write_parquet makes the file there
\* whatever the other run has done since, so the file is then that run's; and
\* a run that returned True wrote every category that had data.  The state in
\* which both runs wrote the same path is the witness.
C23_CheckThenWrite ==
    /\ [][\A r \in Runs :
            (rpc[r] = "write" /\ rpc'[r] = "check")
                => LET path == PartitionPath(Keys[ridx[r]], rarch)
                   IN  /\ <<r, path>> \in rwrote'
                       /\ rowner'[path] = r
                       /\ rparts'[path] = Written(RaceBuffers[Keys[ridx[r]]])]_vars
    /\ [](\A r \in Runs :
            rres[r] = "True"
                => \A k \in KeySet :
                      HasData(RaceBuffers[k])
                          => <<r, PartitionPath(k, rarch)>> \in rwrote)

\* C23 witness: both runs passed the check for catalogues/a.parquet before
\* either wrote; both wrote it, run 1 first, and the file is run 2's
C23_Witness ==
    /\ \A r \in Runs : rres[r] = "True"
    /\ <<1, <<"catalogues", <<"a">>>>>> \in rwrote
    /\ <<2, <<"catalogues", <<"a">>>>>> \in rwrote
    /\ rowner[<<"catalogues", <<"a">>>>] = 2

\* the directories of the destination that hold a file a run has written
WrittenDirs ==
    { q[1] : q \in { p \in DOMAIN parts : parts[p].kind \in {"written", "partial"} } }

\* C24 as stated: every partition file the pipeline has written lies in one of
\* the directories catalogues, definitions, postings, cancels, updates.
C24_ClosedCategories ==
    WrittenDirs \subseteq {"catalogues", "definitions", "postings", "cancels", "updates"}

\* C24 amended: every partition file the pipeline has written lies in one of
\* the directories catalogues, definitions, posts, cancels, updates, whatever
\* the archive held and whatever the destination held before.
C24_CategoryNames ==
    WrittenDirs \subseteq {"catalogues", "definitions", "posts", "cancels", "updates"}

\* C24 witness: the placed orders of an archive were written, under posts
C24_Witness ==
    /\ FileAt(parts, <<"posts", <<"a">>>>).kind = "written"
    /\ FileAt(parts, <<"catalogues", <<"a">>>>).kind = "written"

\* the entry in hand is one the pattern selects and is not a housekeeping one
Selected == ~Contains(cur.name, "housekeeping") /\ Matches(pattern, cur.name)
\* the entry in hand is an archive extract can classify
Classifiable ==
    HasMagic(cur.head) /\ cur.opens /\ Len(network_logs(cur.members)) = 1
RejectedAsExisting == pc = "check" /\ pc' = "list" /\ skipLog' = "exists"

\* C25 as stated: an archive is rejected because of existing output only when
\* every category it has data for has its partition already.
C25_SkipsOnlyComplete ==
    [][(RejectedAsExisting /\ Classifiable)
          => \A k \in KeySet :
                HasData(ClassifyLines(cur.log, EmptyBuffers)[k])
                    => PathExists(parts, PartitionPath(k, cur))]_vars

\* C25 amended: a selected archive is rejected because of existing output
\* exactly when some file <stem>.parquet lies in some directory of the
\* destination, whichever categories it covers; the rejected archive is not
\* downloaded and nothing is written for it.
C25_SkipsAnyOutput ==
    [][(pc = "check" /\ Selected)
          => /\ RejectedAsExisting
                  <=> \E p \in DOMAIN parts : p[2] = Stem(cur.name)
             /\ RejectedAsExisting
                  => (downloads' = downloads /\ parts' = parts /\ tmp' = FALSE)]_vars

\* C25 witness: d/a.tar.zst was rejected while the only file of the
\* destination was the catalogues partition left by a processing of
\* d/a.tar.zst that failed at its definitions
C25_Witness ==
    /\ pc = "list" /\ skipLog = "exists"
    /\ DOMAIN parts = {<<"catalogues", <<"a">>>>}
    /\ parts[<<"catalogues", <<"a">>>>].kind = "written"
    /\ lastWrite.outcome = "undecodable"
    /\ lastWrite.path = <<"definitions", <<"a">>>>
    /\ doneNow = {} /\ doneBefore = {}

\* paged_request has finished after days0 + 1 windows
FinishedAllWindows ==
    /\ fpc = "done"
    /\ days = -1
    /\ to_ = Midnight(now - LagDays * HoursPerDay) - (days0 + 1) * WindowHours

\* C26 as stated: whatever the upstream answers, paged_request finishes after
\* days0 + 1 windows.
C26_Termination == <>FinishedAllWindows

\* C26 amended: unless the upstream goes on for ever returning pages that
\* report more data available, paged_request finishes after days0 + 1 windows.
C26_TerminatesUnlessMore ==
    ([]<>(fpc = "yielded" /\ page.more)) \/ <>FinishedAllWindows

\* C26 witness: two windows are done, the last one ended by a page that
\* reported no more data after records had been received
C26_Witness ==
    /\ FinishedAllWindows
    /\ days0 = 1
    /\ record > 0 /\ errors = 0 /\ ~ongoing

\* C27: a call that does not end in a yield, whether method(...) raised or the
\* reading of its response did, leaves the offset, the bounds of the window,
\* the count of windows to go and the more-available flag as they were, yields
\* nothing, puts nothing into the file, and adds one to the error counter.
C27_FailedCallFrame ==
    [][(calls' = calls + 1 /\ fpc' # "yielded")
          => /\ record' = record
             /\ from_' = from_ /\ to_' = to_
             /\ days' = days
             /\ ongoing' = ongoing
             /\ page' = page /\ output' = output
             /\ errors' = errors + 1]_vars

\* C13: when extract returned True and keep is not set, the decrypted file is
\* gone once process has returned and main has gone back to the listing, and
\* so is the downloaded temporary file; when extract returned False, or keep
\* is set, the decrypted file is still in destination/archives.
C13_Cleanup ==
    /\ [](pc = "extracted" => ProcessName(cur) \in archivesDir)
    /\ [][ pc = "extracted" =>
             /\ (result /\ ~keep)
                  => /\ ProcessName(cur) \notin archivesDir'
                     /\ tmp' = FALSE
             /\ (~result \/ keep) => ProcessName(cur) \in archivesDir'
         ]_vars

\* C13 witness: back at the listing after a download that was extracted
\* without the keep flag: neither file is left
C13_Witness ==
    /\ pc = "list"
    /\ mode = "remote"
    /\ ~keep
    /\ downloads = 1
    /\ doneNow # {}
    /\ archivesDir = {}
    /\ ~tmp

\* the order in which the categories are written
CategoryOrder == <<"catalogues", "definitions", "posts", "cancels", "updates">>

\* extract has come to its loop over the buffers in the call in hand
InSinkLoop == pc = "writing" \/ (pc = "extracted" /\ lastWrite # NoWrite)

\* C14: the categories are taken in the order catalogues, definitions, posts,
\* cancels, updates; when the destination of a non-empty category exists,
\* extract returns False there; nothing is written afterwards for that
\* archive; and every category written earlier in the call stays as written.
C14_PartialCommit ==
    /\ [](InSinkLoop =>
            \A i \in 1..(widx - 1) :
                buffers[CategoryOrder[i]] # <<>>
                    => FileAt(parts, PartitionPath(CategoryOrder[i], cur))
                         = [kind |-> "written", rows |-> buffers[CategoryOrder[i]]])
    /\ [][ /\ (AtSink /\ lastWrite' # lastWrite)
                => lastWrite'.key = CategoryOrder[widx]
           /\ (AtSink /\ buffers[CategoryOrder[widx]] # <<>>
                /\ FileAt(parts, PartitionPath(CategoryOrder[widx], cur)) # NoFile)
                => /\ pc' = "extracted"
                   /\ result' = FALSE
                   /\ widx' = widx
                   /\ parts' = parts
           /\ (pc = "extracted" /\ ~result) => parts' = parts
         ]_vars

\* C14 witness: the catalogues of the archive were written, then its updates
\* met an existing file
C14_Witness ==
    /\ pc = "extracted"
    /\ ~result
    /\ lastWrite.outcome = "conflict"
    /\ lastWrite.key = "updates"
    /\ buffers["catalogues"] # <<>>
    /\ FileAt(parts, PartitionPath("catalogues", cur)).rows = buffers["catalogues"]

----------------------------------------------------------------------------
(* Claims about paged_request, continued *)

\* the pages of the window that ends at t, among those written to the file
RECURSIVE ReceivedIn(_, _)
ReceivedIn(out, t) ==
    IF out = <<>> THEN 0
    ELSE (IF Head(out).to = t THEN Head(out).n ELSE 0) + ReceivedIn(Tail(out), t)

\* C15: within a window the offset of every call is the sum of the record
\* counts of the pages received in the window so far, 0 for the first; a
\* successful call adds the page's record count to the offset, sets the error
\* counter to 0 and yields the page; after a successful page that reported
\* more data the next step is another call, after one that reported no more
\* data the window ends with no further call.
C15_PagingProtocol ==
    /\ [](fpc = "paging" => record = ReceivedIn(output, to_))
    /\ [][ /\ calls' = calls + 1 =>
                /\ record \in offsets'
                /\ record = ReceivedIn(output, to_)
                /\ calls = 0 => record = 0
           /\ fpc' = "yielded" =>
                /\ calls' = calls + 1
                /\ page'.offset = record
                /\ page'.to = to_
                /\ record' = record + page'.n
                /\ errors' = 0
                /\ ongoing' = page'.more
           /\ fpc = "yielded" =>
                /\ output' = output \o <<page>>
                /\ fpc' = "paging"
                /\ ongoing' = page.more
                /\ record' = record
           /\ (fpc = "paging" /\ calls > 0 /\ errors = 0) =>
                IF output[Len(output)].more
                THEN calls' = calls + 1 /\ fpc' # "window"
                ELSE calls' = calls /\ fpc' = "window"
         ]_vars

\* C15 witness: two pages of two records were received in one window, at
\* the offsets 0 and 2, the second reporting more data
C15_Witness ==
    /\ fpc = "paging"
    /\ errors = 0
    /\ record = 4
    /\ offsets = {0, 2}
    /\ Len(output) >= 2
    /\ output[Len(output)].offset = 2
    /\ output[Len(output)].more
    /\ ongoing

\* C16: after 5 consecutive failures the window is left for the next older
\* one; when method(...) raises in every call and days = D >= 0, the run is
\* over after exactly 5 * (D + 1) calls, with no page yielded and nothing
\* written.
C16_AbandonedWindow ==
    /\ [](/\ (fpc = "done" /\ days0 >= 0 /\ allRaised # -1)
               => /\ allRaised = 5 * (days0 + 1)
                  /\ pages = 0
                  /\ page = NoPage
                  /\ Len(output) <= 1
                  /\ Len(windows) = days0 + 1
          /\ (allRaised # -1 /\ days0 >= 0) => allRaised <= 5 * (days0 + 1))
    /\ [][ (fpc = "paging" /\ errors = 5) =>
               /\ fpc' = "window"
               /\ to_' = from_
               /\ days' = days - 1
               /\ calls' = calls
         ]_vars

\* C16 witness: days = 1 is over after ten calls that all raised
C16_Witness ==
    /\ fpc = "done"
    /\ days0 = 1
    /\ allRaised = 10
    /\ Len(windows) = 2

\* C17: every window starts with offset 0, error counter 0 and paging on,
\* whatever the window before left; the first call of a window is made with
\* offset 0 and a full retry budget.
C17_WindowIndependence ==
    /\ [](/\ (fpc = "paging" /\ calls = 0) => (record = 0 /\ errors = 0 /\ ongoing)
          /\ (fpc = "paging" /\ raised = calls) => errors = calls)
    /\ [][ /\ (fpc = "window" /\ days >= 0) =>
                /\ fpc' = "paging"
                /\ record' = 0
                /\ errors' = 0
                /\ ongoing' = TRUE
           /\ (calls = 0 /\ calls' = 1) => offsets' = {0}
         ]_vars

\* C17 witness: a window is about to make its first call after a window that
\* was abandoned at offset 2 with more data outstanding
C17_Witness ==
    /\ fpc = "paging"
    /\ calls = 0
    /\ days = days0 - 1
    /\ output # <<>>
    /\ output[Len(output)].more
    /\ output[Len(output)].n = 2
    /\ output[Len(output)].to = to_ + 24
    /\ record = 0 /\ errors = 0 /\ ongoing

----------------------------------------------------------------------------
(* Claims about the sink *)

\* some line of the log in hand has the marker of key k as its first marker
ClassifiedInto(k) == \E i \in 1..Len(cur.log) : FirstMarkerKey(cur.log[i]) = k

C19_PartitionKey ==
    (AtSink /\ mode = "remote") => SinkPath = <<SinkKey, Stem(cur.name)>>

=============================================================================
